---- MODULE Spec2Model ----
(***************************************************************************)
(* QLoggerWriter (src/QLoggerWriter.cpp): producers append formatted lines *)
(* to mMessages under the per-writer mutex; the worker thread (run) swaps  *)
(* the queue out and writes the batch; closeDestination flushes what is    *)
(* left, writes the "Closed" marker, sets mQuit and wakes the worker.      *)
(* Every writer instance shares the two static mutexes zipLock, writeLock. *)
(*                                                                         *)
(* A thread is <<writer, role>>: role "run" is the worker thread of the    *)
(* writer, role "close" the thread that calls closeDestination.  enqueue,  *)
(* setLogMode and forcePush are calls of other threads; each is one step   *)
(* (enqueue holds the queue mutex from its first to its last statement).   *)
(* A program counter names the source line the thread executes next.       *)
(*                                                                         *)
(* Two functions are studied on their own: the text enqueue builds for a   *)
(* line (FormatSpec) and generateDuplicateFilename (NameSpec).             *)
(***************************************************************************)
EXTENDS Integers, Sequences, FiniteSets, TLC

VARIABLES
    instances,    \* the writer instances that were constructed
    mMode,        \* [writer] mMode
    mMessages,    \* [writer] the pending queue
    mQuit,        \* [writer] mQuit
    currentDate,  \* [writer] the tracked date
    lastActive,   \* [writer] "null" | "recent" | "old" (more than 5 s ago)
    wakeUpTime,   \* [writer] how often wakeUpTime was restarted
    mutex,        \* [writer] holder of the queue mutex, or NoThread
    zipLock,      \* holder of the static zipLock, or NoThread
    writeLock,    \* holder of the static writeLock, or NoThread
    today,        \* QDateTime::currentDateTime().date()
    files,        \* [writer][name] the destination file and its dated renames
    console,      \* [writer] what qInfo() printed
    pc,           \* [thread] the line the thread executes next
    copy,         \* [thread] the local batch (copy / closed / messages)
    ret,          \* [thread] where write() returns to
    newName,      \* [thread] renameFileIfFull's newName (a date suffix)
    prev,         \* [thread] write's prevFilename is not empty
    fh,           \* [thread] the file the thread's QFile has open
    calls,        \* number of enqueue calls so far
    left,         \* how many more calls and outside events the run may have
    before,       \* [writer] lines appended before closeDestination was called
    dropped,      \* [writer] lines of batches whose file.open failed
    renames,      \* [writer][day] successful renames performed on that day
    failedRename, \* [writer] the days on which a rename failed
    signalled,    \* [writer] enqueue or forcePush called wakeAll since the worker's last swap
    mMessageOptions,   \* the display flags of the writer whose enqueue formats
    mLevel,            \* the level threshold of that writer
    args,              \* the arguments of the enqueue call that formats
    text,              \* enqueue's local text at line 261, or NoText
    existing,          \* the paths QFileInfo::exists finds
    fileSuffixNumber,  \* generateDuplicateFilename's argument
    path               \* what generateDuplicateFilename returned, or NoPath

vars == <<instances, mMode, mMessages, mQuit, currentDate, lastActive, wakeUpTime,
          mutex, zipLock, writeLock, today, files, console, pc, copy, ret,
          newName, prev, fh, calls, left, before, dropped, renames, failedRename,
          signalled,
          mMessageOptions, mLevel, args, text, existing, fileSuffixNumber, path>>

shared == <<mMode, mMessages, mQuit, currentDate, lastActive, wakeUpTime>>
locks == <<mutex, zipLock, writeLock>>
disk == <<files, console, renames, failedRename>>
locals == <<copy, ret, newName, prev, fh>>
budget == <<calls, left>>
ghost == <<before, dropped, signalled>>
formatter == <<mMessageOptions, mLevel, args, text>>
naming == <<existing, fileSuffixNumber, path>>
calc == <<formatter, naming>>

----------------------------------------------------------------------------
\* Bounds of the model.
\* MaxEvents bounds the enqueue calls, setLogMode calls, failed opens and
\* midnights of a run of one writer instance, MaxEventsAll those of a run of
\* all the instances; MaxDay is the last day of the calendar.
MaxEvents == 3
MaxEventsAll == 1
MaxDay == 2

Writers == {1, 2}
Producers == {1, 2}
Roles == {"run", "close"}
Threads == Writers \X Roles
NoThread == <<0, "none">>
Days == 0 .. MaxDay
FirstDay == 1

LogModes == {"Disabled", "OnlyConsole", "OnlyFile", "Full"}

\* File names of one writer: mFileDestination, and for each date the name
\* with the "_yyyy_MM_dd" suffix of that date.
DestName == -1
NoName == -2
DatedName(d) == d
FileNames == {DestName} \cup Days

\* A file: whether it exists, its lines, and the date of its last modification.
NoFileRec == [exists |-> FALSE, data |-> <<>>, modified |-> 0]

Msg(p, n) == [k |-> "msg", p |-> p, n |-> n]
ClosedLine == [k |-> "closed", p |-> 0, n |-> 0]
PrevLine == [k |-> "prev", p |-> 0, n |-> 0]

\* qInfo() << message for each line of a batch, at source line `at`.
Printed(batch, at) == [i \in 1 .. Len(batch) |-> [line |-> batch[i], at |-> at]]

Worker(w) == <<w, "run">>
Closer(w) == <<w, "close">>

Goto(t, p) == pc' = [pc EXCEPT ![t] = p]

\* bool mIsStop is set nowhere in the source.
mIsStop == FALSE

----------------------------------------------------------------------------
\* One more call or outside event of the run.
Event ==
    /\ left > 0
    /\ left' = left - 1

\* The state after construction of the writer instances I (lines 47-87): the
\* tracked date is the destination's last-modified date when the file exists,
\* today otherwise.  A writer that was not constructed takes no step.
InitFor(I, n) ==
    /\ instances = I
    /\ mMode \in [Writers -> {"OnlyFile"}]
    /\ mMessages = [w \in Writers |-> <<>>]
    /\ mQuit = [w \in Writers |-> FALSE]
    /\ today = FirstDay
    /\ \E ex \in [Writers -> BOOLEAN] :
         /\ currentDate \in [Writers -> {FirstDay - 1, FirstDay}]
         /\ \A w \in Writers : ~ex[w] => currentDate[w] = FirstDay
         /\ \A w \in Writers \ I : ~ex[w]
         /\ files = [w \in Writers |-> [f \in FileNames |->
                        IF f = DestName /\ ex[w]
                        THEN [exists |-> TRUE, data |-> <<>>, modified |-> currentDate[w]]
                        ELSE NoFileRec]]
    /\ lastActive = [w \in Writers |-> "null"]
    /\ wakeUpTime = [w \in Writers |-> 0]
    /\ mutex = [w \in Writers |-> NoThread]
    /\ zipLock = NoThread
    /\ writeLock = NoThread
    /\ console = [w \in Writers |-> <<>>]
    /\ pc = [t \in Threads |-> IF t[2] = "run" THEN "NotStarted" ELSE "Idle"]
    /\ copy = [t \in Threads |-> <<>>]
    /\ ret = [t \in Threads |-> "none"]
    /\ newName = [t \in Threads |-> NoName]
    /\ prev = [t \in Threads |-> FALSE]
    /\ fh = [t \in Threads |-> NoName]
    /\ calls = 0
    /\ left = n
    /\ before = [w \in Writers |-> {}]
    /\ dropped = [w \in Writers |-> {}]
    /\ renames = [w \in Writers |-> [d \in Days |-> 0]]
    /\ failedRename = [w \in Writers |-> {}]
    /\ signalled = [w \in Writers |-> FALSE]

\* No enqueue call is formatting, no duplicate name is being looked for.
NoText == <<"none">>
NoPath == <<"none">>
NoArgs == [none |-> TRUE]

NoCalc ==
    /\ mMessageOptions = {}
    /\ mLevel = 0
    /\ args = NoArgs
    /\ text = NoText
    /\ existing = {}
    /\ fileSuffixNumber = 0
    /\ path = NoPath

Init == InitFor({1}, MaxEvents) /\ NoCalc

----------------------------------------------------------------------------
\* QWaitCondition::wakeAll: every thread waiting on mQueueNotEmpty (only
\* the worker waits on it) is woken and must reacquire the mutex.
WakeAll(w, f) ==
    [f EXCEPT ![Worker(w)] = IF @ = "waiting" THEN "woken" ELSE @]

isRunning(w) == pc[Worker(w)] \notin {"NotStarted", "Stopped"}

\* QThread::start() as called by the owner of the writer and by setLogMode.
start(w) ==
    /\ ~isRunning(w)
    /\ Goto(Worker(w), "run_274")
    /\ UNCHANGED <<instances, calc, shared, locks, today, disk, locals, budget, ghost>>

\* setLogMode, lines 89-101.
setLogMode(w, mode) ==
    /\ Event
    /\ UNCHANGED calls
    /\ mMode' = [mMode EXCEPT ![w] = mode]
    /\ IF mode # "Disabled" /\ ~isRunning(w)
       THEN Goto(Worker(w), "run_274")
       ELSE UNCHANGED pc
    /\ UNCHANGED <<instances, calc, mMessages, mQuit, currentDate, lastActive, wakeUpTime,
                   locks, today, disk, locals, ghost>>

\* enqueue, lines 211-269: the line is formatted and appended; when the
\* wake-check timer ran out (elapsed: wakeUpTime.elapsed() > writeMSec, which
\* depends on how much time passed since its last restart) the worker is
\* woken, unless mIsStop, and the timer restarted.
enqueue_211(w, p) ==
    /\ mMessages' = [mMessages EXCEPT ![w] = Append(@, Msg(p, calls + 1))]
    /\ before' = IF pc[Closer(w)] = "Idle"
                 THEN [before EXCEPT ![w] = @ \cup {Msg(p, calls + 1)}]
                 ELSE before
    /\ \E elapsed \in BOOLEAN :
         IF elapsed
         THEN /\ pc' = IF mIsStop THEN pc ELSE WakeAll(w, pc)
              /\ signalled' = IF mIsStop THEN signalled
                              ELSE [signalled EXCEPT ![w] = TRUE]
              /\ wakeUpTime' = [wakeUpTime EXCEPT ![w] = @ + 1]
         ELSE UNCHANGED <<pc, wakeUpTime, signalled>>

enqueueAnyMode(w, p) ==
    /\ Event
    /\ calls' = calls + 1
    /\ enqueue_211(w, p)
    /\ UNCHANGED <<instances, calc, mMode, mQuit, currentDate, lastActive, locks, today,
                   disk, locals, dropped>>

\* enqueue, lines 208-269, with the mutex held: in Disabled mode the call
\* returns at line 209.
enqueueLocked(w, p) ==
    /\ Event
    /\ calls' = calls + 1
    /\ IF mMode[w] = "Disabled"
       THEN UNCHANGED <<mMessages, wakeUpTime, pc, before, signalled>>
       ELSE enqueue_211(w, p)
    /\ UNCHANGED <<instances, calc, mMode, mQuit, currentDate, lastActive, locks, today,
                   disk, locals, dropped>>

enqueueNoMutex(w, p) == enqueueLocked(w, p)

\* enqueue: QMutexLocker locker(&mutex) at line 206 waits for the mutex.
enqueue(w, p) ==
    /\ mutex[w] = NoThread
    /\ enqueueLocked(w, p)

\* forcePush, lines 324-333.
forcePush(w) ==
    /\ IF Len(mMessages[w]) > 0 /\ lastActive[w] = "old"
       THEN /\ pc' = WakeAll(w, pc)
            /\ signalled' = [signalled EXCEPT ![w] = TRUE]
       ELSE UNCHANGED <<pc, signalled>>
    /\ UNCHANGED <<instances, calc, shared, locks, today, disk, locals, budget, before,
                   dropped>>

----------------------------------------------------------------------------
\* The clocks the code reads.

\* lastActive.secsTo(now) grows past 5 (lines 328-330).
idleElapsed(w) ==
    /\ lastActive[w] = "recent"
    /\ lastActive' = [lastActive EXCEPT ![w] = "old"]
    /\ UNCHANGED <<instances, calc, mMode, mMessages, mQuit, currentDate, wakeUpTime,
                   locks, today, disk, pc, locals, budget, ghost>>

\* Midnight passes: QDateTime::currentDateTime().date() is the next day.
midnight ==
    /\ today < MaxDay
    /\ today' = today + 1
    /\ Event
    /\ UNCHANGED <<instances, calc, shared, locks, disk, pc, locals, calls, ghost>>

----------------------------------------------------------------------------
\* run, lines 272-299.

\* Line 274: if (!mQuit).
run_274(w) ==
    /\ pc[Worker(w)] = "run_274"
    /\ Goto(Worker(w), IF mQuit[w] THEN "run_280" ELSE "run_wait")
    /\ UNCHANGED <<instances, calc, shared, locks, today, disk, locals, budget, ghost>>

\* Lines 276-277 and 295-296: the mutex is locked and mQueueNotEmpty.wait
\* releases it in one step with blocking the thread.
run_wait(w) ==
    /\ pc[Worker(w)] = "run_wait"
    /\ mutex[w] = NoThread
    /\ Goto(Worker(w), "waiting")
    /\ UNCHANGED <<instances, calc, shared, locks, today, disk, locals, budget, ghost>>

\* The woken worker reacquires the mutex inside wait; the QMutexLocker
\* releases it at the closing brace (lines 278, 297).
run_woken(w) ==
    /\ pc[Worker(w)] = "woken"
    /\ mutex[w] = NoThread
    /\ Goto(Worker(w), "run_280")
    /\ UNCHANGED <<instances, calc, shared, locks, today, disk, locals, budget, ghost>>

\* Line 280: while (!mQuit).
run_280(w) ==
    /\ pc[Worker(w)] = "run_280"
    /\ Goto(Worker(w), IF mQuit[w] THEN "Stopped" ELSE "run_285")
    /\ UNCHANGED <<instances, calc, shared, locks, today, disk, locals, budget, ghost>>

\* Line 286, first half of std::swap: the queue is moved into copy.
run_286Take(w) ==
    /\ pc[Worker(w)] = "run_285"
    /\ mutex' = [mutex EXCEPT ![w] = Worker(w)]
    /\ copy' = [copy EXCEPT ![Worker(w)] = mMessages[w]]
    /\ Goto(Worker(w), "run_286")
    /\ UNCHANGED <<instances, calc, shared, zipLock, writeLock, today, disk, ret, newName,
                   prev, fh, budget, ghost>>

run_285NoMutex(w) == run_286Take(w)

\* Line 285: QMutexLocker locker(&mutex) waits for the mutex.
run_285(w) ==
    /\ mutex[w] = NoThread
    /\ run_286Take(w)

\* Lines 286-289: std::swap leaves the (empty) former copy in mMessages, the
\* mutex is released and write(copy) is called.
run_286(w) ==
    /\ pc[Worker(w)] = "run_286"
    /\ mMessages' = [mMessages EXCEPT ![w] = <<>>]
    /\ mutex' = [mutex EXCEPT ![w] = NoThread]
    /\ ret' = [ret EXCEPT ![Worker(w)] = "run_291"]
    /\ Goto(Worker(w), "write_170")
    /\ signalled' = [signalled EXCEPT ![w] = FALSE]
    /\ UNCHANGED <<instances, calc, mMode, mQuit, currentDate, lastActive, wakeUpTime,
                   zipLock, writeLock, today, disk, copy, newName, prev, fh,
                   budget, before, dropped>>

\* Line 291: lastActive = now.
run_291(w) ==
    /\ pc[Worker(w)] = "run_291"
    /\ lastActive' = [lastActive EXCEPT ![w] = "recent"]
    /\ Goto(Worker(w), "run_293")
    /\ UNCHANGED <<instances, calc, mMode, mMessages, mQuit, currentDate, wakeUpTime, locks,
                   today, disk, locals, budget, ghost>>

\* Line 293: if (!mQuit) wait, else back to the loop test.
run_293(w) ==
    /\ pc[Worker(w)] = "run_293"
    /\ Goto(Worker(w), IF mQuit[w] THEN "run_280" ELSE "run_wait")
    /\ UNCHANGED <<instances, calc, shared, locks, today, disk, locals, budget, ghost>>

----------------------------------------------------------------------------
\* closeDestination, lines 301-322.  The QMutexLocker of line 303 holds the
\* mutex until the function returns.

\* Lines 303-310: the mutex is locked; if the queue is not empty std::swap
\* moves it into copy.
close_303(w) ==
    /\ pc[Closer(w)] = "Idle"
    /\ mutex[w] = NoThread
    /\ mutex' = [mutex EXCEPT ![w] = Closer(w)]
    /\ IF mMessages[w] # <<>>
       THEN /\ copy' = [copy EXCEPT ![Closer(w)] = mMessages[w]]
            /\ Goto(Closer(w), "close_310")
       ELSE /\ Goto(Closer(w), "close_316")
            /\ UNCHANGED copy
    /\ UNCHANGED <<instances, calc, shared, zipLock, writeLock, today, disk, ret, newName,
                   prev, fh, budget, ghost>>

\* Lines 310-313: the queue is left empty and write(copy) is called.
close_310(w) ==
    /\ pc[Closer(w)] = "close_310"
    /\ mMessages' = [mMessages EXCEPT ![w] = <<>>]
    /\ ret' = [ret EXCEPT ![Closer(w)] = "close_316"]
    /\ Goto(Closer(w), "write_170")
    /\ UNCHANGED <<instances, calc, mMode, mQuit, currentDate, lastActive, wakeUpTime, locks,
                   today, disk, copy, newName, prev, fh, budget, ghost>>

\* Lines 316-318: write(closed) with the "Closed" marker line.
close_316(w) ==
    /\ pc[Closer(w)] = "close_316"
    /\ copy' = [copy EXCEPT ![Closer(w)] = <<ClosedLine>>]
    /\ ret' = [ret EXCEPT ![Closer(w)] = "close_320"]
    /\ Goto(Closer(w), "write_170")
    /\ UNCHANGED <<instances, calc, shared, locks, today, disk, newName, prev, fh,
                   budget, ghost>>

\* Lines 320-322: mQuit = true, wakeAll, and the mutex is released on return.
close_320(w) ==
    /\ pc[Closer(w)] = "close_320"
    /\ mQuit' = [mQuit EXCEPT ![w] = TRUE]
    /\ pc' = [WakeAll(w, pc) EXCEPT ![Closer(w)] = "Done"]
    /\ mutex' = [mutex EXCEPT ![w] = NoThread]
    /\ UNCHANGED <<instances, calc, mMode, mMessages, currentDate, lastActive, wakeUpTime,
                   zipLock, writeLock, today, disk, locals, budget, ghost>>

----------------------------------------------------------------------------
\* write (lines 167-202) with renameFileIfFull (103-123) and zipFileCustom
\* (335-369), as executed by thread t of writer t[1].

\* write returns to its caller; the batch and the other locals are gone.
Return(t) ==
    /\ pc' = [pc EXCEPT ![t] = ret[t]]
    /\ copy' = [copy EXCEPT ![t] = <<>>]
    /\ ret' = [ret EXCEPT ![t] = "none"]
    /\ newName' = [newName EXCEPT ![t] = NoName]
    /\ prev' = [prev EXCEPT ![t] = FALSE]

\* Lines 170-176 and 105-106: in OnlyConsole mode the batch goes to qInfo()
\* only; otherwise renameFileIfFull is entered, which does not rotate while
\* the tracked date is today.
write_170(t) ==
    /\ pc[t] = "write_170"
    /\ IF mMode[t[1]] = "OnlyConsole"
       THEN /\ console' = [console EXCEPT ![t[1]] = @ \o Printed(copy[t], 173)]
            /\ Return(t)
       ELSE /\ Goto(t, IF currentDate[t[1]] = today THEN "write_183" ELSE "rename_112")
            /\ UNCHANGED <<console, copy, ret, newName, prev>>
    /\ UNCHANGED <<instances, calc, shared, locks, today, files, renames, failedRename,
                   fh, budget, ghost>>

\* Lines 111-112: newName carries the tracked date.
rename_112(t) ==
    /\ pc[t] = "rename_112"
    /\ newName' = [newName EXCEPT ![t] = DatedName(currentDate[t[1]])]
    /\ Goto(t, "rename_114")
    /\ UNCHANGED <<instances, calc, shared, locks, today, disk, copy, ret, prev, fh,
                   budget, ghost>>

\* Whether some QFile has the destination of writer w open.
DestOpen(w) == \E u \in Threads : u[1] = w /\ fh[u] = DestName

\* Lines 114-115: QFile::rename fails when the destination is missing or the
\* new name exists, and where a file that is open cannot be renamed; where
\* it can, the open QFile goes on writing the renamed file.
rename_114(t) ==
    /\ pc[t] = "rename_114"
    /\ \E locked \in IF DestOpen(t[1]) THEN BOOLEAN ELSE {FALSE} :
         IF /\ files[t[1]][DestName].exists
            /\ ~files[t[1]][newName[t]].exists
            /\ ~locked
         THEN /\ files' = [files EXCEPT ![t[1]] =
                    [@ EXCEPT ![newName[t]] = files[t[1]][DestName],
                              ![DestName] = NoFileRec]]
              /\ fh' = [u \in Threads |->
                    IF u[1] = t[1] /\ fh[u] = DestName THEN newName[t] ELSE fh[u]]
              /\ renames' = [renames EXCEPT ![t[1]][today] = @ + 1]
              /\ Goto(t, "rename_117")
              /\ UNCHANGED <<newName, failedRename>>
         ELSE /\ newName' = [newName EXCEPT ![t] = NoName]
              /\ failedRename' = [failedRename EXCEPT ![t[1]] = @ \cup {today}]
              /\ Goto(t, "write_183")
              /\ UNCHANGED <<files, fh, renames>>
    /\ UNCHANGED <<instances, calc, shared, locks, today, console, copy, ret, prev,
                   budget, ghost>>

\* Line 117: the tracked date becomes today.
rename_117(t) ==
    /\ pc[t] = "rename_117"
    /\ currentDate' = [currentDate EXCEPT ![t[1]] = today]
    /\ Goto(t, "rename_119")
    /\ UNCHANGED <<instances, calc, mMode, mMessages, mQuit, lastActive, wakeUpTime, locks,
                   today, disk, locals, budget, ghost>>

\* Lines 119-122: no zip when mQuit is set, zipFileCustom(newName) otherwise.
rename_119(t) ==
    /\ pc[t] = "rename_119"
    /\ IF mQuit[t[1]]
       THEN /\ prev' = [prev EXCEPT ![t] = TRUE]
            /\ Goto(t, "write_183")
       ELSE /\ Goto(t, "zip_337")
            /\ UNCHANGED prev
    /\ UNCHANGED <<instances, calc, shared, locks, today, disk, copy, ret, newName, fh,
                   budget, ghost>>

\* Lines 339-354: with zipLock held the 7z process is started.
zip_354(t) ==
    /\ pc[t] = "zip_337"
    /\ zipLock' = t
    /\ Goto(t, "zip_356")
    /\ UNCHANGED <<instances, calc, shared, mutex, writeLock, today, disk, locals,
                   budget, ghost>>

zip_337NoLock(t) == zip_354(t)

\* Line 337: QMutexLocker zipLock1(&zipLock) waits for zipLock.
zip_337(t) ==
    /\ zipLock = NoThread
    /\ zip_354(t)

zip_356KeepLock(t) ==
    /\ pc[t] = "zip_356"
    /\ prev' = [prev EXCEPT ![t] = TRUE]
    /\ Goto(t, "write_183")
    /\ UNCHANGED <<instances, calc, shared, locks, today, disk, copy, ret, newName, fh,
                   budget, ghost>>

\* Lines 356-368: the process ended, or was killed by close() after the
\* 15 minutes; the status string is returned and zipLock released.
zip_356(t) ==
    /\ pc[t] = "zip_356"
    /\ zipLock' = NoThread
    /\ prev' = [prev EXCEPT ![t] = TRUE]
    /\ Goto(t, "write_183")
    /\ UNCHANGED <<instances, calc, shared, mutex, writeLock, today, disk, copy, ret,
                   newName, fh, budget, ghost>>

\* The lines of a batch, as a set.
Lines(batch) == {batch[i] : i \in 1 .. Len(batch)}

write_185KeepLock(t) ==
    /\ pc[t] = "write_183"
    /\ \/ /\ files' = [files EXCEPT ![t[1]][DestName] =
                          IF @.exists THEN @
                          ELSE [exists |-> TRUE, data |-> <<>>, modified |-> today]]
          /\ fh' = [fh EXCEPT ![t] = DestName]
          /\ writeLock' = t
          /\ Goto(t, "write_187")
          /\ UNCHANGED <<budget, dropped, copy, ret, newName, prev>>
       \/ /\ Event
          /\ UNCHANGED calls
          /\ dropped' = [dropped EXCEPT ![t[1]] = @ \cup Lines(copy[t])]
          /\ Return(t)
          /\ writeLock' = t
          /\ UNCHANGED <<files, fh>>
    /\ UNCHANGED <<instances, calc, shared, mutex, zipLock, today, console, renames,
                   failedRename, before, signalled>>

\* Line 185: file.open(ReadWrite | Text | Append) creates a missing file and
\* the thread goes on with writeLock held; when it fails the batch is dropped,
\* write returns and its QMutexLocker releases writeLock (line 202).
write_185(t) ==
    /\ pc[t] = "write_183"
    /\ \/ /\ files' = [files EXCEPT ![t[1]][DestName] =
                          IF @.exists THEN @
                          ELSE [exists |-> TRUE, data |-> <<>>, modified |-> today]]
          /\ fh' = [fh EXCEPT ![t] = DestName]
          /\ writeLock' = t
          /\ Goto(t, "write_187")
          /\ UNCHANGED <<budget, dropped, copy, ret, newName, prev>>
       \/ /\ Event
          /\ UNCHANGED calls
          /\ dropped' = [dropped EXCEPT ![t[1]] = @ \cup Lines(copy[t])]
          /\ Return(t)
          /\ UNCHANGED <<files, fh, writeLock>>
    /\ UNCHANGED <<instances, calc, shared, mutex, zipLock, today, console, renames,
                   failedRename, before, signalled>>

write_183NoLock(t) == write_185(t)

\* Line 183: QMutexLocker write(&writeLock) waits for writeLock.
write_183(t) ==
    /\ writeLock = NoThread
    /\ write_185(t)

\* What lines 189-198 put into the stream, in order.
Output(t) == (IF prev[t] THEN <<PrevLine>> ELSE <<>>) \o copy[t]

\* Lines 187-202: the marker of the previous log and the lines of the batch
\* are written in order (mirrored to qInfo() in Full mode), file.close(), and
\* on return the QMutexLocker releases writeLock.
write_187(t) ==
    /\ pc[t] = "write_187"
    /\ files' = [files EXCEPT ![t[1]][fh[t]] =
                    [@ EXCEPT !.data = @ \o Output(t),
                              !.modified = IF Output(t) = <<>> THEN @ ELSE today]]
    /\ console' = IF mMode[t[1]] = "Full"
                  THEN [console EXCEPT ![t[1]] = @ \o Printed(copy[t], 197)]
                  ELSE console
    /\ fh' = [fh EXCEPT ![t] = NoName]
    /\ writeLock' = NoThread
    /\ Return(t)
    /\ UNCHANGED <<instances, calc, shared, mutex, zipLock, today, renames, failedRename,
                   budget, ghost>>

----------------------------------------------------------------------------
Next ==
    \/ \E w \in instances : start(w)
    \/ \E w \in instances : \E mode \in LogModes : setLogMode(w, mode)
    \/ \E w \in instances : \E p \in Producers : enqueue(w, p)
    \/ \E w \in instances : forcePush(w)
    \/ \E w \in instances : idleElapsed(w)
    \/ midnight
    \/ \E w \in instances : run_274(w)
    \/ \E w \in instances : run_wait(w)
    \/ \E w \in instances : run_woken(w)
    \/ \E w \in instances : run_280(w)
    \/ \E w \in instances : run_285(w)
    \/ \E w \in instances : run_286(w)
    \/ \E w \in instances : run_291(w)
    \/ \E w \in instances : run_293(w)
    \/ \E w \in instances : close_303(w)
    \/ \E w \in instances : close_310(w)
    \/ \E w \in instances : close_316(w)
    \/ \E w \in instances : close_320(w)
    \/ \E t \in instances \X Roles : write_170(t)
    \/ \E t \in instances \X Roles : rename_112(t)
    \/ \E t \in instances \X Roles : rename_114(t)
    \/ \E t \in instances \X Roles : rename_117(t)
    \/ \E t \in instances \X Roles : rename_119(t)
    \/ \E t \in instances \X Roles : zip_337(t)
    \/ \E t \in instances \X Roles : zip_356(t)
    \/ \E t \in instances \X Roles : write_183(t)
    \/ \E t \in instances \X Roles : write_187(t)

Spec == Init /\ [][Next]_vars

\* The steps of thread t once it runs: the scheduler lets a thread that can
\* take a step take one.  Calls from outside (start, setLogMode, enqueue,
\* forcePush, closeDestination itself) are not owed to anyone.
ThreadStep(t) ==
    \/ /\ t[2] = "run"
       /\ \/ run_274(t[1]) \/ run_wait(t[1]) \/ run_woken(t[1]) \/ run_280(t[1])
          \/ run_285(t[1]) \/ run_286(t[1]) \/ run_291(t[1]) \/ run_293(t[1])
    \/ /\ t[2] = "close"
       /\ \/ close_310(t[1]) \/ close_316(t[1]) \/ close_320(t[1])
    \/ write_170(t) \/ rename_112(t) \/ rename_114(t) \/ rename_117(t)
    \/ rename_119(t) \/ zip_337(t) \/ zip_356(t) \/ write_183(t) \/ write_187(t)

FairSpec == Spec /\ \A t \in Threads : WF_vars(ThreadStep(t))

\* Every writer instance constructed, sharing zipLock and writeLock.
InitAll == InitFor(Writers, MaxEventsAll) /\ NoCalc

SpecAll == InitAll /\ [][Next]_vars

----------------------------------------------------------------------------
\* The line enqueue builds (lines 211-259).  A QString is the sequence of
\* its characters.

Digit == <<"0", "1", "2", "3", "4", "5", "6", "7", "8", "9">>

\* QString::number(n) for n >= 0.
RECURSIVE number(_)
number(n) ==
    IF n < 10 THEN <<Digit[n + 1]>>
    ELSE number(n \div 10) \o <<Digit[(n % 10) + 1]>>

\* A field of a date format ("yyyy", "MM", "zzz", ...): the number with
\* leading zeros up to the width of the field.
Padded(n, width) ==
    LET digits == number(n)
    IN  [i \in 1 .. (width - Len(digits)) |-> "0"] \o digits

\* date.toString("yyyy-MM-dd hh:mm:ss:zzz"), lines 227 and 238.
toString(date) ==
    Padded(date.year, 4) \o <<"-">> \o Padded(date.month, 2) \o <<"-">>
        \o Padded(date.day, 2) \o <<" ">> \o Padded(date.hour, 2) \o <<":">>
        \o Padded(date.minute, 2) \o <<":">> \o Padded(date.second, 2) \o <<":">>
        \o Padded(date.msec, 3)

\* enum class LogLevel, in increasing severity, and levelToText.
Trace == 0
Debug == 1
Error == 4
levelToText(level) ==
    << <<"T", "r", "a", "c", "e">>, <<"D", "e", "b", "u", "g">>,
       <<"I", "n", "f", "o">>, <<"W", "a", "r", "n", "i", "n", "g">>,
       <<"E", "r", "r", "o", "r">>, <<"F", "a", "t", "a", "l">> >>[level + 1]

\* enum class LogMessageDisplay: the single flags, and the composite Default.
LogMessageDisplay ==
    {"LogLevel", "ModuleName", "DateTime", "ThreadId", "Function", "File", "Line",
     "Message"}
Default == LogMessageDisplay \ {"Function"}

\* QFlags::testFlag: every bit of the flag is set.
testFlag(flag) == flag # {} /\ flag \subseteq mMessageOptions

startsWith(s, c) == s # <<>> /\ s[1] = c
endsWith(s, c) == s # <<>> /\ s[Len(s)] = c
\* QString::right(n): the n rightmost characters.
right(s, n) == IF n >= Len(s) THEN s ELSE SubSeq(s, Len(s) - n + 1, Len(s))

\* QString("[%1]").arg(s)
Bracketed(s) == <<"[">> \o s \o <<"]">>

\* Lines 211-221: the file/line or file/function segment.
fileLine ==
    IF /\ testFlag({"File"}) /\ testFlag({"Line"})
       /\ args.fileName # <<>> /\ args.line > 0 /\ mLevel <= Debug
    THEN <<"{">> \o args.fileName \o <<":">> \o number(args.line) \o <<"}">>
    ELSE IF /\ testFlag({"File"}) /\ testFlag({"Function"})
            /\ args.fileName # <<>> /\ args.function # <<>> /\ mLevel <= Debug
    THEN <<"{">> \o args.fileName \o <<"}", "{">> \o args.function \o <<"}">>
    ELSE <<>>

\* Lines 226-227: the layout of the Default flags.
enqueue_226 ==
    Bracketed(levelToText(args.level)) \o Bracketed(args.module)
        \o Bracketed(toString(args.date)) \o Bracketed(args.threadId)
        \o fileLine \o <<" ">> \o args.message

appendMessageNoSpace(t) ==
    IF testFlag({"Message"}) THEN t \o args.message ELSE t

\* Lines 250-256: the message, after a space unless the text is empty or
\* ends in a space.
appendMessage(t) ==
    IF testFlag({"Message"})
    THEN IF t = <<>> \/ endsWith(t, " ")
         THEN t \o args.message
         ELSE t \o <<" ">> \o args.message
    ELSE t

\* Lines 231-256: the enabled fields are appended one after the other.
enqueue_231 ==
    LET level == IF testFlag({"LogLevel"})
                 THEN Bracketed(levelToText(args.level)) ELSE <<>>
        module == level \o IF testFlag({"ModuleName"})
                           THEN Bracketed(args.module) ELSE <<>>
        date == module \o IF testFlag({"DateTime"})
                          THEN Bracketed(toString(args.date)) ELSE <<>>
        threadId == date \o IF testFlag({"ThreadId"})
                            THEN Bracketed(args.threadId) ELSE <<>>
        segment == IF fileLine = <<>> THEN threadId
                   ELSE threadId \o IF startsWith(fileLine, " ")
                                    THEN right(fileLine, 1) ELSE fileLine
    IN  appendMessage(segment)

\* Lines 211-259 of an enqueue call that is not in Disabled mode: text, as
\* it is appended to mMessages at line 261.
enqueue_259 ==
    /\ text = NoText
    /\ text' = (IF testFlag(Default) THEN enqueue_226 ELSE enqueue_231) \o <<"\n">>
    /\ UNCHANGED <<instances, shared, locks, today, disk, pc, locals, budget, ghost,
                   mMessageOptions, mLevel, args, naming>>

\* The calls of enqueue that are formatted: every set of display flags, a
\* threshold below and above Debug, empty and non-empty arguments.
EnqueueArgs ==
    [date : {[year |-> 2026, month |-> 3, day |-> 9, hour |-> 14, minute |-> 5,
              second |-> 0, msec |-> 42]},
     threadId : {<<"0", "x", "1">>},
     module : {<<>>, <<"N", "e", "t">>},
     level : {Debug, Error},
     function : {<<>>, <<"f">>},
     fileName : {<<>>, <<"a", ".", "c">>},
     line : {0, 7, 12},
     message : {<<>>, <<"t", "i", "m", "e", "o", "u", "t">>, <<" ", "x">>}]

FormatInit ==
    /\ InitFor({}, 0)
    /\ mMessageOptions \in SUBSET LogMessageDisplay
    /\ mLevel \in {Debug, Error}
    /\ args \in EnqueueArgs
    /\ text = NoText
    /\ existing = {}
    /\ fileSuffixNumber = 0
    /\ path = NoPath

FormatSpec == FormatInit /\ [][enqueue_259]_vars

----------------------------------------------------------------------------
\* generateDuplicateFilename (lines 151-165).

\* The greatest suffix number a name that exists beforehand may carry.
MaxSuffix == 10

\* The arguments fileDestination and fileExtension of the call, "log" and
\* "txt", and the value of fileSuffixNumber when the caller (line 143) gives
\* none.
fileDestination == <<"l", "o", "g">>
fileExtension == <<"t", "x", "t">>
FirstSuffix == 1

\* Lines 153-157: the path tried for a suffix number.
PathOf(n) ==
    IF n > 1
    THEN fileDestination \o <<"(">> \o number(n) \o <<")", ".">> \o fileExtension
    ELSE fileDestination \o <<".">> \o fileExtension

generateDuplicateFilenameNoCheck ==
    /\ path = NoPath
    /\ path' = PathOf(fileSuffixNumber)
    /\ UNCHANGED <<instances, formatter, shared, locks, today, disk, pc, locals,
                   budget, ghost, existing, fileSuffixNumber>>

\* One call, lines 151-165: when the path exists the function calls itself
\* with the next number, otherwise it returns the path.
generateDuplicateFilename ==
    /\ path = NoPath
    /\ IF PathOf(fileSuffixNumber) \in existing
       THEN /\ fileSuffixNumber' = fileSuffixNumber + 1
            /\ UNCHANGED path
       ELSE /\ path' = PathOf(fileSuffixNumber)
            /\ UNCHANGED fileSuffixNumber
    /\ UNCHANGED <<instances, formatter, shared, locks, today, disk, pc, locals,
                   budget, ghost, existing>>

\* Any set of the names base.ext, base(2).ext, ... exists beforehand.
NameInit ==
    /\ InitFor({}, 0)
    /\ mMessageOptions = {}
    /\ mLevel = 0
    /\ args = NoArgs
    /\ text = NoText
    /\ existing \in SUBSET {PathOf(n) : n \in 1 .. MaxSuffix}
    /\ fileSuffixNumber = FirstSuffix
    /\ path = NoPath

NameSpec == NameInit /\ [][generateDuplicateFilename]_vars

----------------------------------------------------------------------------
\* What the claims speak of.

WritePcs == {"write_170", "rename_112", "rename_114", "rename_117", "rename_119",
             "zip_337", "zip_356", "write_183", "write_187"}

RECURSIVE DatedFrom(_, _)
DatedFrom(w, d) ==
    IF d > MaxDay THEN <<>> ELSE files[w][DatedName(d)].data \o DatedFrom(w, d + 1)

\* The lines on disk in the order they were written: the dated files from
\* the oldest on, then the destination file.
Destination(w) == DatedFrom(w, 0) \o files[w][DestName].data

Count(seq, x) == Cardinality({i \in 1 .. Len(seq) : seq[i] = x})

Pos(seq, x) == CHOOSE i \in 1 .. Len(seq) : seq[i] = x

\* How often line l reached the destination of writer w: the files, or the
\* console sink of OnlyConsole mode (line 173).
Written(w, l) ==
    Count(Destination(w), l) + Count(console[w], [line |-> l, at |-> 173])

ConsoleOnlyUsed(w) == \E i \in 1 .. Len(console[w]) : console[w][i].at = 173

\* closeDestination has returned and the worker is not inside write.
ShutDown(w) == pc[Closer(w)] = "Done" /\ pc[Worker(w)] \notin WritePcs

----------------------------------------------------------------------------
\* C1: once closeDestination has returned and the worker has finished its
\* current write, every line enqueued before closeDestination was called has
\* been written exactly once, provided no open of the destination failed.
NoLossNoDuplication ==
    \A w \in instances :
        (ShutDown(w) /\ dropped[w] = {}) =>
            \A l \in before[w] : Written(w, l) = 1

\* C1 witness: after shutdown, two lines enqueued before it, a flush by the
\* worker having taken place.
NoLossWitness ==
    \E w \in instances :
        /\ ShutDown(w) /\ dropped[w] = {}
        /\ Cardinality(before[w]) >= 2
        /\ lastActive[w] # "null"

\* C2: every line enqueued before closeDestination was called is in the
\* destination before the "Closed" marker (no open failed, file mode).
ShutdownDrains ==
    \A w \in instances :
        (Count(Destination(w), ClosedLine) > 0 /\ dropped[w] = {} /\ ~ConsoleOnlyUsed(w)) =>
            \A l \in before[w] :
                /\ Count(Destination(w), l) > 0
                /\ Pos(Destination(w), l) < Pos(Destination(w), ClosedLine)

\* C3: two lines of one producer are written in the order they were enqueued.
PerProducerOrder ==
    \A w \in instances :
        LET dest == Destination(w) IN
        \A i, j \in 1 .. Len(dest) :
            (/\ dest[i].k = "msg" /\ dest[j].k = "msg"
             /\ dest[i].p = dest[j].p /\ dest[i].n < dest[j].n) => i < j

\* C4: the queue changes only by an append at its end or by a swap that
\* empties it, the swap's batch is the whole queue in append order (nothing
\* was appended between the taking of the batch and the emptying of the
\* queue), and write puts the lines of its batch at the end of the file in
\* that order.
AtomicSwapFifo ==
    [][\A w \in instances :
         /\ mMessages'[w] # mMessages[w] =>
              \/ \E p \in Producers : mMessages'[w] = Append(mMessages[w], Msg(p, calls + 1))
              \/ /\ mMessages'[w] = <<>>
                 /\ \E t \in {Worker(w), Closer(w)} :
                      /\ pc[t] \in {"run_286", "close_310"}
                      /\ pc'[t] = "write_170"
                      /\ copy[t] = mMessages[w]
                      /\ copy'[t] = copy[t]
         /\ \A t \in {Worker(w), Closer(w)} :
              (pc[t] = "write_187" /\ pc'[t] # "write_187") =>
                 LET old == files[w][fh[t]].data
                     new == files'[w][fh[t]].data
                 IN  /\ Len(new) >= Len(old) + Len(copy[t])
                     /\ SubSeq(new, Len(new) - Len(copy[t]) + 1, Len(new)) = copy[t]
                     /\ SubSeq(new, 1, Len(old)) = old
      ]_vars

\* C4 witness: the worker has swapped out a batch of two lines that a
\* producer appended one after the other, and the queue is empty.
AtomicSwapWitness ==
    \E w \in instances :
        /\ pc[Worker(w)] = "write_170"
        /\ Len(copy[Worker(w)]) = 2
        /\ copy[Worker(w)][1].n < copy[Worker(w)][2].n
        /\ mMessages[w] = <<>>

\* C5: no thread writes the file or runs the archiver while it holds the
\* queue mutex of its writer.
NoIoUnderQueueMutex ==
    \A t \in instances \X Roles :
        pc[t] \in {"write_187", "zip_356"} => mutex[t[1]] # t

\* C7: on one day at most one rename of a writer's destination succeeds.
RotationOncePerDay ==
    \A w \in instances : \A d \in Days : renames[w][d] <= 1

\* C8: an enqueue call in Disabled mode leaves the queue, the wake-check
\* timer, every thread (no wake signal) and the files and console unchanged.
DisabledIsNoOp ==
    [][\A w \in instances : \A p \in Producers :
         (mMode[w] = "Disabled" /\ enqueue(w, p)) =>
             UNCHANGED <<mMessages, wakeUpTime, pc, files, console>>
      ]_vars

\* C8 witness: an enqueue call was made and appended nothing (every line
\* appended before closeDestination is recorded in before), mode Disabled,
\* the worker waiting.
DisabledWitness ==
    \E w \in instances :
        /\ mMode[w] = "Disabled" /\ calls >= 1
        /\ pc[Closer(w)] = "Idle" /\ before[w] = {}
        /\ pc[Worker(w)] = "waiting"

\* C9: over all writer instances at most one thread has a file open in
\* write, and it holds writeLock for as long as the file is open.
WriteSerialized ==
    /\ Cardinality({t \in Threads : fh[t] # NoName}) <= 1
    /\ \A t \in Threads : fh[t] # NoName => writeLock = t

\* C9 witness: a thread of one writer has its file open while a thread of
\* another writer is at line 183.
WriteSerializedWitness ==
    \E t, u \in Threads :
        t[1] # u[1] /\ fh[t] # NoName /\ pc[u] = "write_183"

\* C10: over all writer instances at most one 7z process is running.
ZipSerialized ==
    Cardinality({t \in Threads : pc[t] = "zip_356"}) <= 1

\* C10 witness: the 7z process of one writer is running while a thread of
\* another writer is at line 337.
ZipSerializedWitness ==
    \E t, u \in Threads :
        t[1] # u[1] /\ pc[t] = "zip_356" /\ pc[u] = "zip_337"

\* C6: once closeDestination has set mQuit and called wakeAll, the worker
\* leaves run.
WorkerStops ==
    \A w \in Writers :
        (pc[Closer(w)] = "Done") ~> (pc[Worker(w)] \in {"NotStarted", "Stopped"})

\* C11: a flush that is part of closeDestination never runs the archiver:
\* the closing thread is never inside zipFileCustom.
NoZipDuringShutdown ==
    \A w \in instances : pc[Closer(w)] \notin {"zip_337", "zip_356"}

----------------------------------------------------------------------------
\* The scheduler keeps calling forcePush, and time passes: a forcePush call
\* that would signal is eventually made, and the 5 seconds since lastActive
\* eventually elapse.
FairIdleSpec ==
    FairSpec /\ \A w \in Writers : WF_vars(forcePush(w)) /\ WF_vars(idleElapsed(w))

\* C12: with forcePush called again and again, lines that sit in the queue
\* while the worker waits are eventually taken out of the queue by a swap
\* (unless closeDestination is called), without any further enqueue.
IdleFlushEventually ==
    \A w \in Writers :
        (pc[Worker(w)] = "waiting" /\ mMessages[w] # <<>> /\ pc[Closer(w)] = "Idle")
            ~> (mMessages[w] = <<>> \/ pc[Closer(w)] # "Idle")

----------------------------------------------------------------------------
\* What C13 says of the line: the enabled fields in the order Level, Module,
\* Timestamp, ThreadId, file/function segment, Message.

RECURSIVE Joined(_)
Joined(parts) == IF parts = <<>> THEN <<>> ELSE Head(parts) \o Joined(Tail(parts))

Shown(flag, s) == IF flag \in mMessageOptions THEN s ELSE <<>>

\* "2026-03-09 14:05:00:042", the date of EnqueueArgs as the format prints it.
Timestamp ==
    <<"2", "0", "2", "6", "-", "0", "3", "-", "0", "9", " ", "1", "4", ":", "0", "5",
      ":", "0", "0", ":", "0", "4", "2">>

\* The line numbers of EnqueueArgs in decimal.
LineText == IF args.line = 7 THEN <<"7">> ELSE <<"1", "2">>

\* The file/function segment between the brackets l and r: file:line when
\* File and Line are enabled, file name and line are given and the
\* threshold is at most Debug; otherwise file and function under the same
\* conditions.
Segment(l, r) ==
    IF /\ {"File", "Line"} \subseteq mMessageOptions
       /\ Len(args.fileName) > 0 /\ args.line >= 1 /\ mLevel \in {Trace, Debug}
    THEN <<l>> \o args.fileName \o <<":">> \o LineText \o <<r>>
    ELSE IF /\ {"File", "Function"} \subseteq mMessageOptions
            /\ Len(args.fileName) > 0 /\ Len(args.function) > 0
            /\ mLevel \in {Trace, Debug}
    THEN <<l>> \o args.fileName \o <<r, l>> \o args.function \o <<r>>
    ELSE <<>>

\* The whole line, with the segment between l and r.
Composed(l, r) ==
    LET fields == Joined(<<Shown("LogLevel", <<"[">> \o levelToText(args.level) \o <<"]">>),
                           Shown("ModuleName", <<"[">> \o args.module \o <<"]">>),
                           Shown("DateTime", <<"[">> \o Timestamp \o <<"]">>),
                           Shown("ThreadId", <<"[">> \o args.threadId \o <<"]">>),
                           Segment(l, r)>>)
        space == IF fields = <<>> \/ fields[Len(fields)] = " " THEN <<>> ELSE <<" ">>
    IN  fields \o Shown("Message", space \o args.message) \o <<"\n">>

----------------------------------------------------------------------------
\* What C14 says of a name: its numeric suffix, read back from the name
\* (base.ext counts as suffix 1).

DigitValue(c) == CHOOSE d \in 0 .. 9 : Digit[d + 1] = c

RECURSIVE Value(_)
Value(digits) ==
    IF digits = <<>> THEN 0
    ELSE 10 * Value(SubSeq(digits, 1, Len(digits) - 1)) + DigitValue(digits[Len(digits)])

SuffixOf(name) ==
    IF \E i \in 1 .. Len(name) : name[i] = "("
    THEN LET open == CHOOSE i \in 1 .. Len(name) : name[i] = "("
             close == CHOOSE i \in 1 .. Len(name) : name[i] = ")"
         IN  Value(SubSeq(name, open + 1, close - 1))
    ELSE 1

ExistingSuffixes == {SuffixOf(name) : name \in existing}

Highest(S) == IF S = {} THEN 0 ELSE CHOOSE n \in S : \A k \in S : k <= n

\* C14 as stated: the returned name does not exist and its suffix is one
\* greater than the highest existing suffix, gaps or not.
SuffixAboveHighest ==
    path # NoPath =>
        /\ path \notin existing
        /\ SuffixOf(path) = Highest(ExistingSuffixes) + 1

\* C14 amended: the recursion is at most one call deeper than there are
\* existing names, and the returned name does not exist and carries the
\* lowest unused suffix: every smaller suffix exists.
LowestUnusedSuffix ==
    /\ fileSuffixNumber <= Cardinality(existing) + 1
    /\ path # NoPath =>
        /\ path \notin existing
        /\ SuffixOf(path) \notin ExistingSuffixes
        /\ \A k \in 1 .. (SuffixOf(path) - 1) : k \in ExistingSuffixes
        /\ SuffixOf(path) = fileSuffixNumber

\* C14 witness: a name was returned after collisions although a higher
\* suffix exists (the existing suffixes have a gap).
LowestUnusedWitness ==
    /\ path # NoPath
    /\ fileSuffixNumber >= 3
    /\ Highest(ExistingSuffixes) > SuffixOf(path) + 1

\* C15: a batch whose open failed is dropped and nothing else happens: its
\* lines are never written, queued or held by a thread afterwards; a thread
\* holds writeLock only between a successful open and the close; and the
\* failing step returns from write to its caller (the worker goes on at
\* line 291) with writeLock free, leaving the queue, the mode, the queue
\* mutex, mQuit, the files and the console as they were, so that producers
\* see nothing of it.
OpenFailureDropsBatch ==
    /\ [](\A w \in instances : \A l \in dropped[w] :
            /\ Written(w, l) = 0
            /\ l \notin Lines(mMessages[w])
            /\ \A t \in Threads : l \notin Lines(copy[t]))
    /\ [](\A t \in Threads : writeLock = t => pc[t] = "write_187")
    /\ [][\A w \in instances :
            dropped'[w] # dropped[w] =>
                \E t \in {Worker(w), Closer(w)} :
                    /\ pc[t] = "write_183"
                    /\ pc'[t] = ret[t]
                    /\ ret[t] \in {"run_291", "close_316", "close_320"}
                    /\ dropped'[w] = dropped[w] \cup Lines(copy[t])
                    /\ copy'[t] = <<>>
                    /\ writeLock' = NoThread
                    /\ UNCHANGED <<mMessages, mMode, mutex, mQuit, files, console>>
      ]_vars

\* C15 witness: the worker dropped a batch, and a line enqueued after the
\* lines of that batch has been written by the worker since.
OpenFailureWitness ==
    \E w \in instances :
        /\ pc[Closer(w)] = "Idle"
        /\ dropped[w] # {}
        /\ \E l \in Lines(files[w][DestName].data) :
               \A d \in dropped[w] : d.n < l.n

\* C16: when the rename of line 114 fails, the flush runs no archiver and
\* writes no previous-log marker (renameFileIfFull returns an empty name and
\* leaves the files alone), it appends its batch to the destination file,
\* and no flush that begins later on that day enters the rotation again.
FailedRotationIsNoRotation ==
    [][\A t \in instances \X Roles :
         /\ (pc[t] = "rename_114" /\ pc'[t] = "write_183") =>
                /\ ~prev'[t] /\ newName'[t] = NoName /\ copy'[t] = copy[t]
                /\ UNCHANGED <<files, zipLock>>
         /\ (pc[t] = "write_187" /\ pc'[t] # "write_187" /\ ~prev[t]) =>
                files'[t[1]][DestName].data = files[t[1]][DestName].data \o copy[t]
         /\ (pc[t] = "write_170" /\ pc'[t] = "rename_112") =>
                today \notin failedRename[t[1]]
      ]_vars

\* C17: the tracked date changes only at line 117 of a flush and then
\* becomes the current date (so at most once per day transition), and a
\* rotation never gives a file that was last written on a later day the name
\* of an earlier day.
TrackedDateFollowsCalendar ==
    [][\A w \in instances :
         /\ currentDate'[w] # currentDate[w] =>
                /\ \E t \in {Worker(w), Closer(w)} :
                       pc[t] = "rename_117" /\ pc'[t] = "rename_119"
                /\ currentDate'[w] = today
         /\ \A d \in Days :
                (files'[w][DatedName(d)].exists /\ ~files[w][DatedName(d)].exists) =>
                    files'[w][DatedName(d)].modified <= d
      ]_vars

\* Where the worker is between its swap (line 286) and the test of line 293
\* that leads to its next wait.
Flushing == {"run_291", "run_293"} \cup WritePcs

\* C18: a wake signal that enqueue or forcePush sends while the worker is
\* between its swap and its next wait is not lost: the lines in the queue
\* are swapped out by the worker (unless closeDestination is called) without
\* a further signal.
NoLostWakeUp ==
    \A w \in Writers :
        (/\ signalled[w] /\ mMessages[w] # <<>>
         /\ pc[Worker(w)] \in Flushing /\ pc[Closer(w)] = "Idle")
            ~> (mMessages[w] = <<>> \/ pc[Closer(w)] # "Idle")

\* The thread that holds the lock thread t is waiting for, NoThread when t
\* waits for no lock or the lock is free: the queue mutex of its writer at
\* lines 276, 285, 295, 303 and inside wait, zipLock at line 337, writeLock
\* at line 183.
WaitsFor(t) ==
    IF pc[t] \in {"run_wait", "woken", "run_285", "Idle"} THEN mutex[t[1]]
    ELSE IF pc[t] = "zip_337" THEN zipLock
    ELSE IF pc[t] = "write_183" THEN writeLock
    ELSE NoThread

\* Following the waits from thread t for n steps leads to thread u.
RECURSIVE WaitChain(_, _, _)
WaitChain(t, u, n) ==
    /\ n > 0
    /\ WaitsFor(t) # NoThread
    /\ \/ WaitsFor(t) = u
       \/ WaitChain(WaitsFor(t), u, n - 1)

\* C19: no thread waits, directly or through other waiting threads, for a
\* lock it holds itself or whose holder waits for it (no cycle in the
\* wait-for relation over the queue mutexes, zipLock and writeLock), and no
\* thread holds zipLock and writeLock together.
NoLockCycle ==
    /\ \A t \in Threads : ~WaitChain(t, t, Cardinality(Threads))
    /\ zipLock = NoThread \/ zipLock # writeLock

\* C19 witness: a chain of waits: the worker waits for the queue mutex held
\* by the closing thread of its writer, which waits for writeLock held by
\* a thread of the other writer.
NoLockCycleWitness ==
    \E w \in instances :
        /\ pc[Worker(w)] = "run_285" /\ mutex[w] = Closer(w)
        /\ pc[Closer(w)] = "write_183"
        /\ writeLock # NoThread /\ writeLock[1] # w

\* C20: the rename of line 114 is never executed while another thread has
\* the destination file open in write.
RenameSerializedWithWrite ==
    [][\A t \in instances \X Roles :
         (pc[t] = "rename_114" /\ pc'[t] # "rename_114") =>
             ~\E u \in Threads : u # t /\ u[1] = t[1] /\ fh[u] = DestName
      ]_vars

====
